---- MODULE Spec2Model ----
(***************************************************************************)
(* A model of the dependency-injection Container of t-bowersox/container.  *)
(* The repository holds two variants of the class: the strict one, whose   *)
(* get/appendArgs/delete throw ContainerError on an unregistered class,    *)
(* and the permissive one, which falls back to an empty argument list.     *)
(* The variable strict says which of the two was constructed.              *)
(*                                                                         *)
(* Values are strings: the classes, one arrow function, two primitives,    *)
(* the object references r1, r2, ... and the string a caller writes into   *)
(* a field of an instance it holds.  An instance records its class and the *)
(* arguments its constructor received (the public fields of the classes    *)
(* of the test suite).                                                     *)
(***************************************************************************)
EXTENDS Naturals, Sequences, FiniteSets, TLC

\* Bounds of the model.
MaxArgs == 2
MaxHeap == 4
MaxStack == 3
MaxOps == 4
MaxRegs == 3

\* The user's classes.  A accepts any arguments; N reads a property of its
\* first parameter, so that new N() raises.
Classes == {"A", "B", "N"}
NeedsArgs == {"N"}
\* B checks its first parameter and rejects the value p2.
ValidatesArgs == {"B"}
\* An arrow function: typeof "function", and not a constructor.
Callbacks == {"cb"}
Primitives == {"p1", "p2"}
Functions == Classes \cup Callbacks
Values == Functions \cup Primitives
Hello == "hello"

\* The n-th object allocated is referred to as "r<n>".
Ref(n) == "r" \o ToString(n)
\* Reading and writing a field through a reference.
Deref(h, r) == h[CHOOSE n \in 1..Len(h) : Ref(n) = r]
Store(h, r, i, v) ==
  [n \in 1..Len(h) |-> IF Ref(n) = r THEN [h[n] EXCEPT !.args[i] = v] ELSE h[n]]

\* The argument lists the caller passes to add, addStatic and replaceArgs, and
\* the ones it passes to appendArgs.
ArgLists == {<<>>} \cup {<<v>> : v \in Values} \cup {<<"p1", "p2">>, <<"B", "B">>, <<"B", "A">>}
StaticArgLists == {<<>>, <<"p1">>, <<"p1", "p2">>, <<"B">>}
NewArgs == {<<"p2">>, <<"A">>, <<"p1", "p2">>}

VARIABLES strict, registry, instances, heap, last, nops, nregs
vars == <<strict, registry, instances, heap, last, nops, nregs>>


\* A set that keeps the value of a key already present.
MapSetKeep(m, k, v) == [x \in (DOMAIN m) \cup {k} |-> IF x \in DOMAIN m THEN m[x] ELSE v]

\* WeakMap.set / WeakMap.delete / WeakMap.get on a map held as a function
\* whose domain is the set of keys present.
MapSet(m, k, v) == [x \in (DOMAIN m) \cup {k} |-> IF x = k THEN v ELSE m[x]]

\* A delete that leaves the key in the map.
MapDeleteKeeps(m, k) == [x \in DOMAIN m |-> m[x]]

MapDelete(m, k) == [x \in (DOMAIN m) \ {k} |-> m[x]]
MapHas(m, k) == k \in DOMAIN m

\* typeof arg == "function"
IsFunction(v) == v \in Functions

\* Every function taken for a constructor.
ConstructibleAny(f) == f \in Functions

\* Whether new f(...) reaches f's body at all (an arrow function raises
\* TypeError: f is not a constructor).
Constructible(f) == f \in Classes
\* Whether the body of c's constructor raises on these arguments.
Throws(c, args) ==
  \/ c \in NeedsArgs /\ Len(args) = 0
  \/ c \in ValidatesArgs /\ Len(args) > 0 /\ args[1] = "p2"

\* The outcome of a call: a value (kind "ok") or a raised error (its kind, and
\* the class the error names), with the heap the call leaves and the
\* constructor invocations it made, in order.
Ok(v, h, calls) == [kind |-> "ok", val |-> v, name |-> "", heap |-> h, calls |-> calls]
Err(e, n, h, calls) == [kind |-> e, val |-> "", name |-> n, heap |-> h, calls |-> calls]
Call(c, args, how) == [cls |-> c, args |-> args, how |-> how]

\* A constructor that receives its arguments in reverse order.
ConstructReversed(c, args, h, calls) ==
  LET rev == [i \in 1..Len(args) |-> args[Len(args) + 1 - i]] IN
  IF ~Constructible(c) THEN Err("TypeError", c, h, calls)
  ELSE IF Throws(c, rev) THEN Err("CtorError", c, h, Append(calls, Call(c, rev, "build")))
  ELSE Ok(Ref(Len(h) + 1), Append(h, [cls |-> c, args |-> rev]),
          Append(calls, Call(c, rev, "build")))

\* A constructor call that hands back the instance of the class built last,
\* when there is one, instead of allocating.
ConstructCached(c, args, h, calls) ==
  LET old == {n \in 1..Len(h) : h[n].cls = c} IN
  IF ~Constructible(c) THEN Err("TypeError", c, h, calls)
  ELSE IF Throws(c, args) THEN Err("CtorError", c, h, Append(calls, Call(c, args, "build")))
  ELSE IF old # {} THEN Ok(Ref(CHOOSE n \in old : \A m \in old : m <= n), h, calls)
  ELSE Ok(Ref(Len(h) + 1), Append(h, [cls |-> c, args |-> args]),
          Append(calls, Call(c, args, "build")))

\* new c(...args): the instance is allocated at the next free reference.
Construct(c, args, h, calls) ==
  IF ~Constructible(c) THEN Err("TypeError", c, h, calls)
  ELSE IF Throws(c, args) THEN Err("CtorError", c, h, Append(calls, Call(c, args, "build")))
  ELSE Ok(Ref(Len(h) + 1), Append(h, [cls |-> c, args |-> args]),
          Append(calls, Call(c, args, "build")))

\* try { new arg() } catch: the probe of the strict get.  The instance it
\* builds is dropped at once, so it is not kept in the heap.
ProbeOk(arg) == Constructible(arg) /\ ~Throws(arg, <<>>)

RECURSIVE getStrict(_, _, _, _, _, _)
RECURSIVE mapStrict(_, _, _, _, _, _, _, _)

\* A map that resolves a class once and hands the same instance to every
\* later position naming it.
mapStrictReuse(reg, inst, args, i, done, h, calls, depth) ==
  IF i > Len(args) THEN [kind |-> "ok", vals |-> done, name |-> "", heap |-> h, calls |-> calls]
  ELSE LET arg == args[i] IN
    IF ~IsFunction(arg)
    THEN mapStrict(reg, inst, args, i + 1, Append(done, arg), h, calls, depth)
    ELSE IF \E k \in 1..(i - 1) : args[k] = arg
    THEN mapStrict(reg, inst, args, i + 1,
                   Append(done, done[CHOOSE k \in 1..(i - 1) : args[k] = arg]), h, calls, depth)
    ELSE IF ~ProbeOk(arg)
    THEN mapStrict(reg, inst, args, i + 1, Append(done, arg), h,
                   IF Constructible(arg) THEN Append(calls, Call(arg, <<>>, "probe")) ELSE calls,
                   depth)
    ELSE LET r == getStrict(reg, inst, arg, h, Append(calls, Call(arg, <<>>, "probe")), depth + 1) IN
      IF r.kind = "ok"
      THEN mapStrict(reg, inst, args, i + 1, Append(done, r.val), r.heap, r.calls, depth)
      ELSE [kind |-> r.kind, vals |-> <<>>, name |-> r.name, heap |-> h, calls |-> r.calls]

\* args.map(...) of the strict get, from index i on; done holds the prepared
\* arguments so far.
mapStrict(reg, inst, args, i, done, h, calls, depth) ==
  IF i > Len(args) THEN [kind |-> "ok", vals |-> done, name |-> "", heap |-> h, calls |-> calls]
  ELSE LET arg == args[i] IN
    IF ~IsFunction(arg)
    THEN mapStrict(reg, inst, args, i + 1, Append(done, arg), h, calls, depth)
    ELSE IF ~ProbeOk(arg)
    THEN mapStrict(reg, inst, args, i + 1, Append(done, arg), h,
                   IF Constructible(arg) THEN Append(calls, Call(arg, <<>>, "probe")) ELSE calls,
                   depth)
    ELSE LET r == getStrict(reg, inst, arg, h, Append(calls, Call(arg, <<>>, "probe")), depth + 1) IN
      IF r.kind = "ok"
      THEN mapStrict(reg, inst, args, i + 1, Append(done, r.val), r.heap, r.calls, depth)
      ELSE [kind |-> r.kind, vals |-> <<>>, name |-> r.name, heap |-> h, calls |-> r.calls]

\* A strict get that looks at the recipe first and at the static instance
\* only when there is no recipe.
getStrictRecipeFirst(reg, inst, className, h, calls, depth) ==
  IF depth > MaxStack THEN Err("RangeError", className, h, calls)
  ELSE IF ~MapHas(reg, className)
  THEN IF MapHas(inst, className) THEN Ok(inst[className], h, calls)
       ELSE Err("ContainerError", className, h, calls)
  ELSE LET p == mapStrict(reg, inst, reg[className], 1, <<>>, h, calls, depth) IN
    IF p.kind # "ok" THEN Err(p.kind, p.name, h, p.calls)
    ELSE LET c == Construct(className, p.vals, p.heap, p.calls) IN
      IF c.kind = "ok" THEN c ELSE Err(c.kind, c.name, h, c.calls)

\* A strict get that takes a missing recipe for an empty one, as the
\* permissive variant does.
getStrictFallback(reg, inst, className, h, calls, depth) ==
  IF depth > MaxStack THEN Err("RangeError", className, h, calls)
  ELSE IF MapHas(inst, className) THEN Ok(inst[className], h, calls)
  ELSE LET args == IF MapHas(reg, className) THEN reg[className] ELSE <<>>
           p == mapStrict(reg, inst, args, 1, <<>>, h, calls, depth) IN
    IF p.kind # "ok" THEN Err(p.kind, p.name, h, p.calls)
    ELSE LET c == Construct(className, p.vals, p.heap, p.calls) IN
      IF c.kind = "ok" THEN c ELSE Err(c.kind, c.name, h, c.calls)


\* A strict get that reports a dependency's ContainerError under the name of
\* the class it was asked for.
getStrictNamesTarget(reg, inst, className, h, calls, depth) ==
  IF depth > MaxStack THEN Err("RangeError", className, h, calls)
  ELSE IF MapHas(inst, className) THEN Ok(inst[className], h, calls)
  ELSE IF ~MapHas(reg, className) THEN Err("ContainerError", className, h, calls)
  ELSE LET p == mapStrict(reg, inst, reg[className], 1, <<>>, h, calls, depth) IN
    IF p.kind # "ok"
    THEN Err(p.kind, IF p.kind = "ContainerError" THEN className ELSE p.name, h, p.calls)
    ELSE LET c == Construct(className, p.vals, p.heap, p.calls) IN
      IF c.kind = "ok" THEN c ELSE Err(c.kind, c.name, h, c.calls)

\* Container.get of the strict variant.
getStrict(reg, inst, className, h, calls, depth) ==
  IF depth > MaxStack THEN Err("RangeError", className, h, calls)
  ELSE IF MapHas(inst, className) THEN Ok(inst[className], h, calls)
  ELSE IF ~MapHas(reg, className) THEN Err("ContainerError", className, h, calls)
  ELSE LET p == mapStrict(reg, inst, reg[className], 1, <<>>, h, calls, depth) IN
    IF p.kind # "ok" THEN Err(p.kind, p.name, h, p.calls)
    ELSE LET c == Construct(className, p.vals, p.heap, p.calls) IN
      IF c.kind = "ok" THEN c ELSE Err(c.kind, c.name, h, c.calls)

RECURSIVE getPermissive(_, _, _, _, _, _)
RECURSIVE mapPermissive(_, _, _, _, _, _, _, _)
\* args.map(...) of the permissive get: whatever the nested get raises is
\* caught, and the argument is then passed as it is.
mapPermissive(reg, inst, args, i, done, h, calls, depth) ==
  IF i > Len(args) THEN [kind |-> "ok", vals |-> done, name |-> "", heap |-> h, calls |-> calls]
  ELSE LET arg == args[i] IN
    IF ~IsFunction(arg)
    THEN mapPermissive(reg, inst, args, i + 1, Append(done, arg), h, calls, depth)
    ELSE LET r == getPermissive(reg, inst, arg, h, calls, depth + 1) IN
      IF r.kind = "ok"
      THEN mapPermissive(reg, inst, args, i + 1, Append(done, r.val), r.heap, r.calls, depth)
      ELSE mapPermissive(reg, inst, args, i + 1, Append(done, arg), h, r.calls, depth)

\* A permissive get that hands out a copy of the static instance.
getPermissiveCopy(reg, inst, className, h, calls, depth) ==
  IF depth > MaxStack THEN Err("RangeError", className, h, calls)
  ELSE IF MapHas(inst, className)
  THEN Ok(Ref(Len(h) + 1), Append(h, Deref(h, inst[className])), calls)
  ELSE LET args == IF MapHas(reg, className) THEN reg[className] ELSE <<>>
           p == mapPermissive(reg, inst, args, 1, <<>>, h, calls, depth) IN
    LET c == Construct(className, p.vals, p.heap, p.calls) IN
      IF c.kind = "ok" THEN c ELSE Err(c.kind, c.name, h, c.calls)


\* A permissive get that raises ContainerError on a class with no recipe.
getPermissiveNeedsRecipe(reg, inst, className, h, calls, depth) ==
  IF depth > MaxStack THEN Err("RangeError", className, h, calls)
  ELSE IF MapHas(inst, className) THEN Ok(inst[className], h, calls)
  ELSE IF ~MapHas(reg, className) THEN Err("ContainerError", className, h, calls)
  ELSE LET p == mapPermissive(reg, inst, reg[className], 1, <<>>, h, calls, depth) IN
    LET c == Construct(className, p.vals, p.heap, p.calls) IN
      IF c.kind = "ok" THEN c ELSE Err(c.kind, c.name, h, c.calls)

\* Container.get of the permissive variant.
getPermissive(reg, inst, className, h, calls, depth) ==
  IF depth > MaxStack THEN Err("RangeError", className, h, calls)
  ELSE IF MapHas(inst, className) THEN Ok(inst[className], h, calls)
  ELSE LET args == IF MapHas(reg, className) THEN reg[className] ELSE <<>>
           p == mapPermissive(reg, inst, args, 1, <<>>, h, calls, depth) IN
    LET c == Construct(className, p.vals, p.heap, p.calls) IN
      IF c.kind = "ok" THEN c ELSE Err(c.kind, c.name, h, c.calls)

get(className) ==
  IF strict THEN getStrict(registry, instances, className, heap, <<>>, 1)
  ELSE getPermissive(registry, instances, className, heap, <<>>, 1)

\* What the last call was and how it ended.
Op(op, c, args, kind, val, name, calls) ==
  [op |-> op, cls |-> c, args |-> args, kind |-> kind, val |-> val, name |-> name,
   calls |-> calls]

Init ==
  /\ strict \in BOOLEAN
  /\ registry = <<>>
  /\ instances = <<>>
  /\ heap = <<>>
  /\ last = Op("new", "", <<>>, "ok", "", "", <<>>)
  /\ nops = 0
  /\ nregs = 0

Step == nops < MaxOps /\ nops' = nops + 1 /\ UNCHANGED nregs
Write == nops < MaxOps /\ nregs < MaxRegs /\ nops' = nops + 1 /\ nregs' = nregs + 1

\* has / hasStatic: whether the class is a key of the table.
has(className) == MapHas(registry, className)
hasStatic(className) == MapHas(instances, className)

Bool(b) == IF b THEN "true" ELSE "false"
NotRegistered(op, className) ==
  Op(op, className, <<>>, "ContainerError", "", className, <<>>)


\* An add that also drops the class's static instance.
addDropsStatic(newClass, args) ==
  /\ Write
  /\ registry' = MapSet(registry, newClass, args)
  /\ instances' = MapDelete(instances, newClass)
  /\ last' = Op("add", newClass, args, "ok", "this", "", <<>>)
  /\ UNCHANGED <<strict, heap>>

add(newClass, args) ==
  /\ Write
  /\ registry' = MapSet(registry, newClass, args)
  /\ last' = Op("add", newClass, args, "ok", "this", "", <<>>)
  /\ UNCHANGED <<strict, instances, heap>>


\* An addStatic that also records the arguments as the class's recipe.
addStaticRegisters(className, args) ==
  LET c == Construct(className, args, heap, <<>>) IN
  /\ Write
  /\ Len(c.heap) <= MaxHeap
  /\ heap' = c.heap
  /\ instances' = IF c.kind = "ok" THEN MapSet(instances, className, c.val) ELSE instances
  /\ registry' = IF c.kind = "ok" THEN MapSet(registry, className, args) ELSE registry
  /\ last' = Op("addStatic", className, args, c.kind,
                IF c.kind = "ok" THEN "this" ELSE "", c.name, c.calls)
  /\ UNCHANGED strict

\* new className(...args) with the arguments as they were given, then
\* instances.set.
addStatic(className, args) ==
  LET c == Construct(className, args, heap, <<>>) IN
  /\ Write
  /\ Len(c.heap) <= MaxHeap
  /\ heap' = c.heap
  /\ instances' = IF c.kind = "ok" THEN MapSet(instances, className, c.val) ELSE instances
  /\ last' = Op("addStatic", className, args, c.kind,
                IF c.kind = "ok" THEN "this" ELSE "", c.name, c.calls)
  /\ UNCHANGED <<strict, registry>>

\* A push that puts the new arguments in front.
pushFront(args, newArgs) == newArgs \o args

\* args.push(...newArgs)
push(args, newArgs) == args \o newArgs

\* An appendArgs without the strict variant's guard.
appendArgsUnguarded(className, newArgs) ==
  /\ Write
  /\ LET args == IF has(className) THEN registry[className] ELSE <<>> IN
     /\ Len(push(args, newArgs)) <= MaxArgs
     /\ registry' = MapSet(registry, className, push(args, newArgs))
     /\ last' = Op("appendArgs", className, newArgs, "ok", "", "", <<>>)
  /\ UNCHANGED <<strict, instances, heap>>

appendArgs(className, newArgs) ==
  /\ Write
  /\ IF strict /\ ~has(className)
     THEN /\ last' = [NotRegistered("appendArgs", className) EXCEPT !.args = newArgs]
          /\ UNCHANGED registry
     ELSE LET args == IF has(className) THEN registry[className] ELSE <<>> IN
          /\ Len(push(args, newArgs)) <= MaxArgs
          /\ registry' = MapSet(registry, className, push(args, newArgs))
          /\ last' = Op("appendArgs", className, newArgs, "ok", "", "", <<>>)
  /\ UNCHANGED <<strict, instances, heap>>

\* Only the permissive variant has replaceArgs.
replaceArgs(className, args) ==
  /\ ~strict
  /\ Write
  /\ registry' = MapSet(registry, className, args)
  /\ last' = Op("replaceArgs", className, args, "ok", "", "", <<>>)
  /\ UNCHANGED <<strict, instances, heap>>


\* A get that removes the recipe it has read.
GetConsumes(className) ==
  LET r == get(className) IN
  /\ Step
  /\ Len(r.heap) <= MaxHeap
  /\ heap' = r.heap
  /\ registry' = MapDelete(registry, className)
  /\ last' = Op("get", className, <<>>, r.kind, r.val, r.name, r.calls)
  /\ UNCHANGED <<strict, instances>>

Get(className) ==
  LET r == get(className) IN
  /\ Step
  /\ Len(r.heap) <= MaxHeap
  /\ heap' = r.heap
  /\ last' = Op("get", className, <<>>, r.kind, r.val, r.name, r.calls)
  /\ UNCHANGED <<strict, registry, instances>>

\* A delete that removes nothing.
deleteNothing(className) ==
  /\ Write
  /\ IF strict /\ ~has(className)
     THEN last' = NotRegistered("delete", className)
     ELSE last' = Op("delete", className, <<>>, "ok", "", "", <<>>)
  /\ UNCHANGED <<strict, registry, instances, heap>>


\* A delete whose guard also accepts a class that has a static instance.
deleteChecksEither(className) ==
  /\ Write
  /\ IF strict /\ ~has(className) /\ ~hasStatic(className)
     THEN /\ last' = NotRegistered("delete", className)
          /\ UNCHANGED registry
     ELSE /\ registry' = MapDelete(registry, className)
          /\ last' = Op("delete", className, <<>>, "ok", "", "", <<>>)
  /\ UNCHANGED <<strict, instances, heap>>

delete(className) ==
  /\ Write
  /\ IF strict /\ ~has(className)
     THEN /\ last' = NotRegistered("delete", className)
          /\ UNCHANGED registry
     ELSE /\ registry' = MapDelete(registry, className)
          /\ last' = Op("delete", className, <<>>, "ok", "", "", <<>>)
  /\ UNCHANGED <<strict, instances, heap>>

\* Only the strict variant has deleteStatic, has and hasStatic.
deleteStatic(className) ==
  /\ strict
  /\ Write
  /\ IF ~hasStatic(className)
     THEN /\ last' = NotRegistered("deleteStatic", className)
          /\ UNCHANGED instances
     ELSE /\ instances' = MapDelete(instances, className)
          /\ last' = Op("deleteStatic", className, <<>>, "ok", "", "", <<>>)
  /\ UNCHANGED <<strict, registry, heap>>

Has(className) ==
  /\ strict
  /\ Step
  /\ last' = Op("has", className, <<>>, "ok", Bool(has(className)), "", <<>>)
  /\ UNCHANGED <<strict, registry, instances, heap>>

HasStatic(className) ==
  /\ strict
  /\ Step
  /\ last' = Op("hasStatic", className, <<>>, "ok", Bool(hasStatic(className)), "", <<>>)
  /\ UNCHANGED <<strict, registry, instances, heap>>

\* The caller writes into field i of the instance the last get returned
\* (instance.str = "hello world").

Mutate(i) ==
  /\ last.op = "get" /\ last.kind = "ok"
  /\ i \in 1..Len(Deref(heap, last.val).args)
  /\ Step
  /\ heap' = Store(heap, last.val, i, Hello)
  /\ last' = Op("mutate", last.cls, <<>>, "ok", last.val, "", <<>>)
  /\ UNCHANGED <<strict, registry, instances>>

Next ==
  \/ \E c \in Classes, args \in ArgLists : add(c, args)
  \/ \E c \in Classes, args \in StaticArgLists : addStatic(c, args)
  \/ \E c \in Classes, xs \in NewArgs : appendArgs(c, xs)
  \/ \E c \in Classes, args \in ArgLists : replaceArgs(c, args)
  \/ \E c \in Classes : Get(c)
  \/ \E c \in Classes : delete(c)
  \/ \E c \in Classes : deleteStatic(c)
  \/ \E c \in Classes : Has(c)
  \/ \E c \in Classes : HasStatic(c)
  \/ Mutate(1)

Spec == Init /\ [][Next]_vars

(***************************************************************************)
(* Vocabulary of the properties.                                           *)
(***************************************************************************)
Obj(r) == Deref(heap, r)
IsRef(v) == \E n \in 1..Len(heap) : Ref(n) = v
AllNonFunction(args) == \A i \in 1..Len(args) : ~IsFunction(args[i])
\* get(C) was the last call, and C had a recipe and no singleton binding.
GotFromRecipe ==
  last.op = "get" /\ has(last.cls) /\ ~hasStatic(last.cls)

\* C1: after add(C, a1..an), registry[C] is exactly (a1..an); and a get(C) on
\* a class with no singleton binding whose recipe holds no function calls C's
\* constructor once, with exactly the recipe, in order, and returns the
\* instance it built (or raises what that constructor raised).
C1_GetPassesRecipeUnchanged ==
  /\ last.op = "add" => has(last.cls) /\ registry[last.cls] = last.args
  /\ (GotFromRecipe /\ AllNonFunction(registry[last.cls])) =>
       /\ last.calls = <<Call(last.cls, registry[last.cls], "build")>>
       /\ IF Throws(last.cls, registry[last.cls])
          THEN last.kind = "CtorError" /\ last.name = last.cls
          ELSE /\ last.kind = "ok"
               /\ IsRef(last.val)
               /\ Obj(last.val) = [cls |-> last.cls, args |-> registry[last.cls]]

C1_Witness ==
  /\ strict /\ nregs = 1
  /\ GotFromRecipe /\ last.kind = "ok"
  /\ registry[last.cls] = <<"p1", "p2">>
  /\ Obj(last.val).args = <<"p1", "p2">>

C2_Step ==
  /\ \A c \in DOMAIN instances :
       ~(last'.op \in {"addStatic", "deleteStatic"} /\ last'.cls = c) =>
         c \in DOMAIN instances' /\ instances'[c] = instances[c]
  /\ (last'.op = "get" /\ hasStatic(last'.cls)) =>
       /\ last'.kind = "ok"
       /\ last'.val = instances[last'.cls]
       /\ heap' = heap

\* C2: a static instance stays bound to its class until addStatic or
\* deleteStatic is called on that class, and every get of the class returns
\* that very reference and leaves the heap as it is, so what a caller wrote
\* through the reference is there at the next get.
C2_GetReturnsTheStaticInstance == [][C2_Step]_vars

C2_Witness ==
  /\ last.op = "get" /\ hasStatic(last.cls)
  /\ last.val = instances[last.cls]
  /\ Obj(last.val).args = <<Hello>>

\* C3: when a class has both a recipe and a static instance, get returns the
\* static instance and calls no constructor.
C3_StaticTakesPrecedence ==
  (last.op = "get" /\ has(last.cls) /\ hasStatic(last.cls)) =>
    /\ last.kind = "ok"
    /\ last.val = instances[last.cls]
    /\ last.calls = <<>>

C3_Witness ==
  /\ last.op = "get" /\ has(last.cls) /\ hasStatic(last.cls)
  /\ last.val = instances[last.cls]
  /\ registry[last.cls] = <<"p1", "p2">>
  /\ Obj(last.val).args = <<"p1">>

C4_Step ==
  LET c == last'.cls IN
  (last'.op = "get" /\ has(c) /\ ~hasStatic(c) /\ last'.kind = "ok") =>
    /\ \A n \in 1..Len(heap) : Ref(n) # last'.val /\ heap'[n] = heap[n]
    /\ LET o == Deref(heap', last'.val) IN
         /\ o.cls = c
         /\ Len(o.args) = Len(registry[c])
         /\ \A i \in 1..Len(o.args) :
              ~IsFunction(registry[c][i]) => o.args[i] = registry[c][i]

\* C4: a get of a class with a recipe and no static instance that returns,
\* returns a reference no earlier object has, leaves every earlier object as
\* it was, and the new instance holds the recipe of that moment: as many
\* fields as the recipe has arguments, each non-function argument in its place.
C4_GetBuildsAFreshInstance == [][C4_Step]_vars

\* The second of two gets, the first instance having been written to.
C4_Witness ==
  /\ GotFromRecipe /\ last.kind = "ok" /\ nregs = 1
  /\ registry[last.cls] = <<"p1", "p2">>
  /\ Obj(last.val).args = <<"p1", "p2">>
  /\ \E n \in 1..Len(heap) :
       Ref(n) # last.val /\ heap[n] = [cls |-> last.cls, args |-> <<Hello, "p2">>]

\* What resolving the identity d yields: an instance of d, and the static
\* instance when d has one.
IsInstanceOf(v, d) ==
  /\ IsRef(v)
  /\ Obj(v).cls = d
  /\ hasStatic(d) => v = instances[d]
Registered(d) == has(d) \/ hasStatic(d)

\* C5: in the instance a get builds from a recipe, every argument naming a
\* registered identity d has been replaced by an instance of d.  Stated for
\* the plainest dependencies only: d is another class, it has no static
\* instance, its own recipe holds no function, and get(d) itself returns.
C5_RegisteredDependencyIsInjected ==
  (GotFromRecipe /\ last.kind = "ok") =>
    \A i \in 1..Len(registry[last.cls]) :
      LET d == registry[last.cls][i] IN
      (/\ d \in Classes /\ d # last.cls
       /\ has(d) /\ ~hasStatic(d) /\ AllNonFunction(registry[d])
       /\ get(d).kind = "ok") =>
        IsInstanceOf(Obj(last.val).args[i], d)

\* C6: the static instance addStatic builds holds, for every argument naming
\* a registered identity d, an instance of d.
C6_AddStaticResolvesArguments ==
  (last.op = "addStatic" /\ last.kind = "ok") =>
    \A i \in 1..Len(last.args) :
      LET d == last.args[i] IN
      (d \in Classes /\ d # last.cls /\ Registered(d)) =>
        IsInstanceOf(Obj(instances[last.cls]).args[i], d)

\* An identity the strict get takes for a class to resolve (the probe
\* new d() returns) and that neither table holds.
Unregistered(d) == d \in Classes /\ ProbeOk(d) /\ ~has(d) /\ ~hasStatic(d)
\* Whether the strict get resolves the argument a without raising.
Resolves(a) ==
  ~IsFunction(a) \/ ~ProbeOk(a) \/ getStrict(registry, instances, a, heap, <<>>, 2).kind = "ok"
NotRegisteredError(c) == last.kind = "ContainerError" /\ last.name = c
\* The steps that give a class a recipe, and the one that gives it a static
\* instance.
BecomesRegisteredOnlyByRegistering ==
  \A c \in Classes :
    /\ (~has(c) /\ has(c)') => last'.op \in {"add", "appendArgs", "replaceArgs"} /\ last'.cls = c
    /\ (~hasStatic(c) /\ hasStatic(c)') => last'.op = "addStatic" /\ last'.cls = c

\* C7 as claimed: a strict get(C) fails with ContainerError whenever C is in
\* neither table, and whenever C's recipe names an unregistered identity the
\* probe accepts.
C7_GetFailsOnUnregistered ==
  (strict /\ last.op = "get") =>
    /\ (~has(last.cls) /\ ~hasStatic(last.cls)) => NotRegisteredError(last.cls)
    /\ (has(last.cls) /\ \E i \in 1..Len(registry[last.cls]) : Unregistered(registry[last.cls][i]))
         => last.kind = "ContainerError"

C7_State ==
  (strict /\ last.op = "get" /\ ~hasStatic(last.cls)) =>
    /\ ~has(last.cls) => NotRegisteredError(last.cls)
    /\ has(last.cls) =>
         LET args == registry[last.cls] IN
         \A i \in 1..Len(args) :
           (Unregistered(args[i]) /\ \A j \in 1..(i - 1) : ~Unregistered(args[j])) =>
             IF \A j \in 1..(i - 1) : Resolves(args[j])
             THEN NotRegisteredError(args[i])
             ELSE last.kind # "ok"

\* C7 amended: the same for a C with no static instance; the error names the
\* first unregistered identity of the recipe unless resolving an argument
\* placed before it raises (get(C) then fails with that error).  A class is
\* in neither table until a registering call names it.
C7_StrictGetFailsOnUnregistered ==
  /\ \A c \in Classes : ~has(c) /\ ~hasStatic(c)
  /\ [][C7_State' /\ BecomesRegisteredOnlyByRegistering]_vars

C7_Witness ==
  /\ strict /\ GotFromRecipe
  /\ registry[last.cls] = <<"B", "A">>
  /\ Unregistered("A") /\ has("B")
  /\ NotRegisteredError("A")

C8_Step ==
  LET c == last'.cls IN
  /\ (last'.op = "appendArgs" /\ last'.kind = "ok" /\ has(c)) =>
       /\ DOMAIN registry' = DOMAIN registry
       /\ registry'[c] = registry[c] \o last'.args
       /\ \A d \in DOMAIN registry : d # c => registry'[d] = registry[d]
  /\ (last'.op = "get" /\ has(c) /\ ~hasStatic(c) /\ last'.kind \in {"ok", "CtorError"}
        /\ last'.name \in {"", c}) =>
       LET made == last'.calls[Len(last'.calls)] IN
       /\ made.cls = c /\ made.how = "build"
       /\ Len(made.args) = Len(registry[c])
       /\ \A i \in 1..Len(made.args) :
            ~IsFunction(registry[c][i]) => made.args[i] = registry[c][i]

\* C8: a successful appendArgs on a class with a recipe leaves the recipe
\* followed by the new arguments, and every other recipe as it was; the
\* constructor call a get then makes has one argument per recipe entry, each
\* non-function entry in its place.
C8_AppendArgsAppends == [][C8_Step]_vars

\* The second of two appendArgs calls.
C8_Witness ==
  /\ last.op = "appendArgs" /\ last.kind = "ok" /\ nregs = 3
  /\ last.args = <<"A">>
  /\ registry[last.cls] = <<"p2", "A">>

C9_Step ==
  (strict /\ last'.op = "appendArgs" /\ ~has(last'.cls)) =>
    /\ last'.kind = "ContainerError" /\ last'.name = last'.cls
    /\ registry' = registry /\ instances' = instances /\ heap' = heap

\* C9: a strict appendArgs on a class with no recipe raises ContainerError
\* naming the class and changes neither table nor the heap.
C9_StrictAppendArgsNeedsARecipe == [][C9_Step]_vars

C9_Witness ==
  /\ strict /\ last.op = "appendArgs"
  /\ NotRegisteredError(last.cls)
  /\ ~has(last.cls) /\ hasStatic(last.cls)

\* C10 as claimed: a get(C) that follows a successful delete(C) fails with
\* ContainerError (strict variant).
C10_GetAfterDeleteFails ==
  [][(strict /\ last.op = "delete" /\ last.kind = "ok"
        /\ last'.op = "get" /\ last'.cls = last.cls) => last'.kind = "ContainerError"]_vars

C10_Step ==
  /\ (last'.op = "delete" /\ last'.kind = "ok") => last'.cls \notin DOMAIN registry'
  /\ \A c \in Classes :
       (~has(c) /\ has(c)') => last'.op \in {"add", "appendArgs", "replaceArgs"} /\ last'.cls = c
  /\ (strict /\ last'.op = "get" /\ ~has(last'.cls) /\ ~hasStatic(last'.cls)) =>
       last'.kind = "ContainerError" /\ last'.name = last'.cls

\* C10 amended: after a successful delete(C) the class has no recipe; it has
\* none until add, appendArgs or replaceArgs is called on it; and a strict
\* get of a class with no recipe and no static instance fails with
\* ContainerError naming it.
C10_DeletedStaysUnregistered == [][C10_Step]_vars

\* delete has just removed a recipe, and the get that follows would fail.
C10_Witness ==
  /\ strict /\ last.op = "delete" /\ last.kind = "ok"
  /\ ~has(last.cls) /\ ~hasStatic(last.cls)
  /\ get(last.cls).kind = "ContainerError"

C11_Step ==
  /\ (strict /\ last'.op = "delete") =>
       /\ last'.kind = (IF has(last'.cls) THEN "ok" ELSE "ContainerError")
       /\ ~has(last'.cls) =>
            /\ last'.name = last'.cls
            /\ registry' = registry /\ instances' = instances
  /\ (strict /\ last'.op = "deleteStatic") =>
       /\ last'.kind = (IF hasStatic(last'.cls) THEN "ok" ELSE "ContainerError")
       /\ ~hasStatic(last'.cls) =>
            /\ last'.name = last'.cls
            /\ registry' = registry /\ instances' = instances

\* C11: a strict delete raises ContainerError naming the class exactly when
\* the class has no recipe, whether or not it has a static instance; a
\* deleteStatic raises it exactly when the class has no static instance,
\* whether or not it has a recipe; the call that raises changes neither table.
C11_DeleteFailsExactlyWhenAbsent == [][C11_Step]_vars

\* delete has failed on a class that has a static instance and no recipe.
C11_Witness ==
  /\ strict /\ last.op = "delete"
  /\ NotRegisteredError(last.cls)
  /\ ~has(last.cls) /\ hasStatic(last.cls)

\* The constructor call that built what the last get returned.
Made == last.calls[Len(last.calls)]

\* C12: a recipe argument that is a function and not a constructor reaches
\* the class's constructor as that same function, at its own position; and a
\* get on a recipe that names no class makes exactly one constructor call,
\* with the recipe as it is, and fails only if that constructor raises.
C12_CallbackIsPassedThrough ==
  /\ (GotFromRecipe /\ last.kind = "ok") =>
       /\ Len(Made.args) = Len(registry[last.cls])
       /\ \A i \in 1..Len(registry[last.cls]) :
            registry[last.cls][i] \in Callbacks => Made.args[i] = registry[last.cls][i]
  /\ (GotFromRecipe /\ \A i \in 1..Len(registry[last.cls]) : registry[last.cls][i] \notin Classes) =>
       /\ last.calls = <<Call(last.cls, registry[last.cls], "build")>>
       /\ last.kind = (IF Throws(last.cls, registry[last.cls]) THEN "CtorError" ELSE "ok")
       /\ last.kind = "ok" => Obj(last.val) = [cls |-> last.cls, args |-> registry[last.cls]]

C12_Witness ==
  /\ GotFromRecipe /\ last.kind = "ok"
  /\ registry[last.cls] = <<"cb", "p2">>
  /\ Obj(last.val).args = <<"cb", "p2">>

C13_Step ==
  /\ last'.op \in {"addStatic", "deleteStatic"} => registry' = registry
  /\ last'.op \in {"add", "appendArgs", "replaceArgs", "delete"} => instances' = instances
  /\ last'.op \in {"has", "hasStatic"} =>
       /\ last'.kind = "ok"
       /\ registry' = registry /\ instances' = instances /\ heap' = heap
  /\ last'.op = "has" => last'.val = Bool(last'.cls \in DOMAIN registry)
  /\ last'.op = "hasStatic" => last'.val = Bool(last'.cls \in DOMAIN instances)

\* C13: has answers whether the class is a key of registry and hasStatic
\* whether it is a key of instances; addStatic and deleteStatic leave registry
\* as it is; add, appendArgs, replaceArgs and delete leave instances as it is;
\* has and hasStatic return without raising and change nothing.
C13_TablesAreIndependent == [][C13_Step]_vars

\* has answers false for a class that has only a static instance.
C13_Witness ==
  /\ last.op = "has" /\ last.val = "false"
  /\ hasStatic(last.cls) /\ ~has(last.cls)

C14_Step ==
  /\ (last'.op = "addStatic" /\ last'.kind = "ok") =>
       /\ last'.calls = <<Call(last'.cls, last'.args, "build")>>
       /\ instances'[last'.cls] = Ref(Len(heap) + 1)
       /\ Deref(heap', instances'[last'.cls]) = [cls |-> last'.cls, args |-> last'.args]
  /\ (last'.op = "addStatic" /\ last'.kind # "ok") => instances' = instances
  /\ \A c \in DOMAIN instances :
       (/\ last'.op # "mutate"
        /\ ~(last'.op \in {"addStatic", "deleteStatic"} /\ last'.cls = c)) =>
         /\ c \in DOMAIN instances'
         /\ instances'[c] = instances[c]
         /\ Deref(heap', instances[c]) = Deref(heap, instances[c])
  /\ (last'.op = "get" /\ hasStatic(last'.cls)) =>
       /\ last'.kind = "ok"
       /\ last'.val = instances[last'.cls]
       /\ last'.calls = <<>>

\* C14: addStatic(C) calls C's constructor once, with the arguments it was
\* given, and binds the instance built; until addStatic(C) or deleteStatic(C)
\* is called, no call of the container on any class rebinds C or touches that
\* instance, and a get(C) returns it without calling any constructor.
C14_StaticInstanceIsBuiltOnce == [][C14_Step]_vars

\* get returns the static instance after the class's recipe was set and
\* deleted again.
C14_Witness ==
  /\ last.op = "get" /\ nregs = 3
  /\ hasStatic(last.cls) /\ ~has(last.cls)
  /\ last.val = instances[last.cls]
  /\ Obj(last.val) = [cls |-> last.cls, args |-> <<"p1", "p2">>]

\* C15: whenever a constructor called while get(C) builds C or one of its
\* dependencies raises, get(C) fails with that error.  Stated for the
\* constructors of classes that have a recipe, called with their recipe.
C15_ConstructorFailurePropagates ==
  last.op = "get" =>
    \A k \in 1..Len(last.calls) :
      (/\ last.calls[k].how = "build"
       /\ has(last.calls[k].cls)
       /\ Throws(last.calls[k].cls, last.calls[k].args)) =>
        last.kind = "CtorError" /\ last.name = last.calls[k].cls

C16_Step ==
  LET c == last'.cls IN
  last'.op \in {"add", "replaceArgs"} =>
    /\ last'.kind = "ok"
    /\ DOMAIN registry' = (DOMAIN registry) \cup {c}
    /\ registry'[c] = last'.args
    /\ \A d \in DOMAIN registry : d # c => registry'[d] = registry[d]
    /\ instances' = instances /\ heap' = heap /\ last'.calls = <<>>
    /\ last'.op = "add" => last'.val = "this"

\* C16: add and replaceArgs leave the class's recipe equal to the arguments
\* given, whatever it was before, and every other recipe as it was; they call
\* no constructor and touch neither instances nor any object; add returns the
\* container itself.
C16_AddSetsTheRecipe == [][C16_Step]_vars

\* An add that replaces the recipe two earlier calls left.
C16_Witness ==
  /\ last.op = "add" /\ nregs = 3
  /\ DOMAIN registry = {last.cls}
  /\ last.args = <<"cb">> /\ registry[last.cls] = <<"cb">>

C17_Step ==
  LET c == last'.cls IN
  ~strict =>
    /\ last'.kind # "ContainerError"
    /\ (last'.op = "get" /\ ~has(c) /\ ~hasStatic(c)) =>
         /\ last'.calls = <<Call(c, <<>>, "build")>>
         /\ last'.kind = (IF Throws(c, <<>>) THEN "CtorError" ELSE "ok")
         /\ last'.kind = "ok" =>
              /\ last'.val = Ref(Len(heap) + 1)
              /\ Deref(heap', last'.val) = [cls |-> c, args |-> <<>>]
    /\ (last'.op = "get" /\ has(c) /\ ~hasStatic(c) /\ last'.kind = "ok") =>
         \A i \in 1..Len(registry[c]) :
           LET d == registry[c][i] IN
           (d \in Classes /\ ~has(d) /\ ~hasStatic(d) /\ ~Throws(d, <<>>)) =>
             \E n \in (Len(heap) + 1)..Len(heap') :
               /\ Deref(heap', last'.val).args[i] = Ref(n)
               /\ heap'[n] = [cls |-> d, args |-> <<>>]
    /\ (last'.op = "appendArgs" /\ ~has(c)) =>
         /\ last'.kind = "ok"
         /\ DOMAIN registry' = (DOMAIN registry) \cup {c}
         /\ registry'[c] = last'.args
         /\ \A d \in DOMAIN registry : registry'[d] = registry[d]
    /\ (last'.op = "delete" /\ ~has(c)) =>
         /\ last'.kind = "ok"
         /\ registry' = registry /\ instances' = instances /\ heap' = heap

\* C17: in the permissive variant no call raises ContainerError.  A get of a
\* class in neither table calls its constructor with no arguments and returns
\* the instance built (or raises what that constructor raised); a recipe
\* argument naming a class in neither table, whose constructor accepts an
\* empty argument list, is replaced by a new instance built with no
\* arguments; appendArgs on a class with no recipe leaves the new arguments
\* as its recipe; delete on a class with no recipe changes nothing.
C17_PermissiveNeverFailsNotRegistered == [][C17_Step]_vars

\* A permissive get has injected a zero-argument instance of the
\* unregistered class B.
C17_Witness ==
  /\ ~strict /\ GotFromRecipe /\ last.kind = "ok"
  /\ registry[last.cls] = <<"B">>
  /\ ~has("B") /\ ~hasStatic("B")
  /\ IsRef(Obj(last.val).args[1])
  /\ Obj(Obj(last.val).args[1]) = [cls |-> "B", args |-> <<>>]

C18_Step ==
  LET c == last'.cls IN
  /\ (last'.op = "deleteStatic" /\ last'.kind = "ok") =>
       /\ DOMAIN instances' = (DOMAIN instances) \ {c}
       /\ \A d \in DOMAIN instances' : instances'[d] = instances[d]
       /\ registry' = registry
  /\ \A d \in Classes :
       (~hasStatic(d) /\ hasStatic(d)') => last'.op = "addStatic" /\ last'.cls = d
  /\ (last.op = "deleteStatic" /\ last.kind = "ok" /\ last'.op = "get" /\ c = last.cls) =>
       IF has(c)
       THEN /\ AllNonFunction(registry[c]) => last'.calls = <<Call(c, registry[c], "build")>>
            /\ last'.kind = "ok" =>
                 /\ \A n \in 1..Len(heap) : Ref(n) # last'.val
                 /\ Deref(heap', last'.val).cls = c
                 /\ Len(Deref(heap', last'.val).args) = Len(registry[c])
                 /\ \A i \in 1..Len(registry[c]) :
                      ~IsFunction(registry[c][i]) =>
                        Deref(heap', last'.val).args[i] = registry[c][i]
       ELSE last'.kind = "ContainerError" /\ last'.name = c

\* C18: a successful deleteStatic(C) removes C from instances and nothing
\* else, and leaves registry as it is; C has no static instance again until
\* addStatic(C); the get(C) that follows does not return an object that
\* existed before: with a recipe it builds a new instance from the recipe,
\* without one it raises ContainerError naming C.
C18_DeleteStaticForgetsTheInstance == [][C18_Step]_vars

\* addStatic(C, p1), add(C, p1, p2), deleteStatic(C), get(C): the get has
\* built a second object, from the recipe.
C18_Witness ==
  /\ strict /\ nregs = 3 /\ nops = 4
  /\ GotFromRecipe /\ last.kind = "ok"
  /\ Obj(last.val).args = <<"p1", "p2">>
  /\ \E n \in 1..Len(heap) :
       Ref(n) # last.val /\ heap[n] = [cls |-> last.cls, args |-> <<"p1">>]

\* The graph of recipe references: a class with a recipe and no static
\* instance refers to every class its recipe names.
Edge(a, b) ==
  /\ has(a) /\ ~hasStatic(a)
  /\ \E i \in 1..Len(registry[a]) : registry[a][i] = b
\* A path of one or more references (three classes: at most three edges
\* without passing twice through a class in between).
Path(a, b) ==
  \/ Edge(a, b)
  \/ \E m \in Classes : Edge(a, m) /\ Edge(m, b)
  \/ \E m, k \in Classes : Edge(a, m) /\ Edge(m, k) /\ Edge(k, b)
CycleFrom(c) == \E d \in Classes : (d = c \/ Path(c, d)) /\ Path(d, d)

\* C19: a get(C) from which a cycle of recipe references can be reached
\* through classes without a static instance returns no instance.
C19_CycleNeverReturns ==
  (last.op = "get" /\ CycleFrom(last.cls)) => last.kind # "ok"

\* Two constructor calls that agree on everything but the references among
\* their arguments.
SameCall(x, y) ==
  /\ x.cls = y.cls /\ x.how = y.how
  /\ Len(x.args) = Len(y.args)
  /\ \A i \in 1..Len(x.args) :
       (x.args[i] \in Values \/ y.args[i] \in Values) => x.args[i] = y.args[i]

C20_Step ==
  /\ last'.op = "get" => registry' = registry /\ instances' = instances
  /\ (last.op = "get" /\ last'.op = "get" /\ last'.cls = last.cls) =>
       /\ last'.kind = last.kind /\ last'.name = last.name
       /\ Len(last'.calls) = Len(last.calls)
       /\ \A k \in 1..Len(last.calls) : SameCall(last.calls[k], last'.calls[k])

\* C20: a get, whether it returns or raises, leaves registry and instances
\* exactly as they were; a get(C) that directly follows a get(C) ends the
\* same way and makes the same constructor calls with the same arguments
\* (up to the references of the instances built on the way).
C20_GetLeavesTheTablesAlone == [][C20_Step]_vars

\* The second of two gets of a class whose recipe names a class with a
\* static instance: two objects, built alike.
C20_Witness ==
  /\ nregs = 2 /\ nops = 4
  /\ GotFromRecipe /\ last.kind = "ok"
  /\ registry[last.cls] = <<"B">> /\ hasStatic("B")
  /\ Len(heap) = 3 /\ heap[2] = heap[3]
  /\ heap[3].cls = last.cls /\ last.val = Ref(3)

\* C21: the ContainerError a strict get(C) raises names a class that is in
\* neither table: C itself when C has no recipe, and otherwise a class other
\* than C that is reached from C along recipe references.
C21_ErrorNamesTheAbsentClass ==
  (strict /\ last.op = "get" /\ last.kind = "ContainerError") =>
    /\ last.name \in Classes
    /\ ~has(last.name) /\ ~hasStatic(last.name)
    /\ IF has(last.cls)
       THEN last.name # last.cls /\ Path(last.cls, last.name)
       ELSE last.name = last.cls

\* get(N) with N -> B -> A and A in neither table: the error names A.
C21_Witness ==
  /\ strict /\ last.op = "get" /\ last.cls = "N"
  /\ has("N") /\ registry["N"] = <<"B">>
  /\ has("B") /\ registry["B"] = <<"A">>
  /\ ~has("A") /\ ~hasStatic("A")
  /\ NotRegisteredError("A")

C22_Step ==
  LET c == last'.cls
      new == (Len(heap) + 1)..Len(heap') IN
  (last'.op = "get" /\ ~hasStatic(c) /\ last'.kind = "ok") =>
    /\ \A m, n \in new :
         \A i \in 1..Len(heap'[m].args), j \in 1..Len(heap'[n].args) :
           (/\ <<m, i>> # <<n, j>>
            /\ heap'[m].args[i] = heap'[n].args[j]
            /\ heap'[m].args[i] \notin Values) =>
             \E d \in DOMAIN instances : instances[d] = heap'[m].args[i]
    /\ has(c) =>
         \A i \in 1..Len(registry[c]) :
           LET d == registry[c][i]
               v == Deref(heap', last'.val).args[i] IN
           (d \in Classes /\ has(d) /\ ~hasStatic(d) /\ v \notin Values) =>
             \E n \in new : Ref(n) = v /\ heap'[n].cls = d

C22_WitnessAcrossRecipes ==
  /\ GotFromRecipe /\ last.kind = "ok" /\ last.cls = "N"
  /\ registry["N"] = <<"B", "A">>
  /\ has("A") /\ registry["A"] = <<"B">> /\ ~hasStatic("A")
  /\ has("B") /\ ~hasStatic("B")
  /\ LET o == Obj(last.val) IN
       /\ IsRef(o.args[1]) /\ IsRef(o.args[2])
       /\ Obj(o.args[1]).cls = "B" /\ Obj(o.args[2]).cls = "A"
       /\ IsRef(Obj(o.args[2]).args[1])
       /\ Obj(Obj(o.args[2]).args[1]).cls = "B"
       /\ Obj(o.args[2]).args[1] # o.args[1]
====
